---- MODULE Spec2Model ----
(***************************************************************************)
(* Model of the golf-statistics ETL pipeline:                              *)
(*   src/src/download_stats.py  raw CSV download                           *)
(*   src/src/parse_stats.py     raw CSV  -> tidy per-stat CSV              *)
(*   src/src/build_master.py    tidy CSVs -> per-year and all-years master *)
(*                                                                         *)
(* Text (column names, cells, player names) is a sequence of one-character *)
(* strings, so that strip / lower / split / substring are computed.        *)
(* A numeric value n is <<n>>; a missing value (NaN / None) is NULL.        *)
(* A file stem is the sequence of its "_"-separated parts.                 *)
(***************************************************************************)
EXTENDS Integers, Sequences, FiniteSets, TLC

VARIABLES rawDir, interDir, procDir, ret

vars == <<rawDir, interDir, procDir, ret>>

----------------------------------------------------------------------------
(* Generic text helpers (Python str methods used by the code).             *)

\* a missing cell (NaN / None): a pair, so that it differs from every text of
\* characters and from every number <<n>>
NULL == <<"NaN", "NaN">>

\* a missing numeric value
NaN == NULL

Num(n) == <<n>>

UpperChars == <<"A","B","C","D","E","F","G","H","I","J","K","L","M",
                "N","O","P","Q","R","S","T","U","V","W","X","Y","Z">>

LowerChars == <<"a","b","c","d","e","f","g","h","i","j","k","l","m",
                "n","o","p","q","r","s","t","u","v","w","x","y","z">>

LowerChar(c) ==
  IF \E i \in 1..Len(UpperChars) : UpperChars[i] = c
    THEN LowerChars[CHOOSE i \in 1..Len(UpperChars) : UpperChars[i] = c]
    ELSE c

\* str.lower()
Lower(s) == [i \in 1..Len(s) |-> LowerChar(s[i])]

RECURSIVE LStrip(_)
LStrip(s) == IF s # <<>> /\ Head(s) = " " THEN LStrip(Tail(s)) ELSE s

RECURSIVE RStrip(_)
RStrip(s) == IF s # <<>> /\ s[Len(s)] = " "
               THEN RStrip(SubSeq(s, 1, Len(s) - 1)) ELSE s

\* str.strip()
Strip(s) == RStrip(LStrip(s))

\* str.split(): the whitespace-separated words of s
RECURSIVE SplitWords(_, _, _)
SplitWords(s, cur, acc) ==
  IF s = <<>>
    THEN IF cur = <<>> THEN acc ELSE Append(acc, cur)
    ELSE IF Head(s) = " "
           THEN SplitWords(Tail(s), <<>>, IF cur = <<>> THEN acc ELSE Append(acc, cur))
           ELSE SplitWords(Tail(s), Append(cur, Head(s)), acc)

\* " ".join(words)
RECURSIVE JoinWords(_)
JoinWords(ws) ==
  IF ws = <<>> THEN <<>>
  ELSE IF Len(ws) = 1 THEN ws[1]
  ELSE ws[1] \o <<" ">> \o JoinWords(Tail(ws))

\* Python's  h in s  for strings
Contains(s, h) ==
  \E i \in 0..(Len(s) - Len(h)) : SubSeq(s, i + 1, i + Len(h)) = h

\* str.replace(ch, "")
RemoveChar(s, ch) == SelectSeq(s, LAMBDA c : c # ch)

Digits == {"0","1","2","3","4","5","6","7","8","9"}

DigitVal(c) ==
  CASE c = "0" -> 0 [] c = "1" -> 1 [] c = "2" -> 2 [] c = "3" -> 3 [] c = "4" -> 4
    [] c = "5" -> 5 [] c = "6" -> 6 [] c = "7" -> 7 [] c = "8" -> 8 [] c = "9" -> 9

RECURSIVE DecimalVal(_, _)
DecimalVal(s, acc) ==
  IF s = <<>> THEN acc ELSE DecimalVal(Tail(s), 10 * acc + DigitVal(Head(s)))

\* Series.astype(str) on one cell: a missing cell becomes the text "nan"
AsTypeStr(cell) == IF cell = NULL THEN <<"n", "a", "n">> ELSE cell

\* pd.to_numeric(cell.astype(str).replace(",").replace("$").replace("%").strip(),
\*               errors="coerce") on one cell
CoerceNumeric(cell) ==
  LET s == Strip(RemoveChar(RemoveChar(RemoveChar(AsTypeStr(cell), ","), "$"), "%"))
  IN IF s # <<>> /\ \A i \in 1..Len(s) : s[i] \in Digits
       THEN Num(DecimalVal(s, 0)) ELSE NaN

\* texts used as cells of the input files
tAnn == <<"A", "n", "n">>
tAnnSp == <<"A", "n", "n", " ">>
tBob == <<"B", "o", "b">>
tOne == <<"1">>
tTwo == <<"2">>
tX == <<"x">>
tPct == <<"7", "%">>
tMoney == <<"$", "1", ",", "0">>

tNan == <<"n", "a", "n">>

----------------------------------------------------------------------------
(* parse_stats.py: configuration                                           *)

Stats == << <<"sg","total">>, <<"sg","ott">>, <<"sg","app">>, <<"sg","arg">>,
            <<"sg","putt">>, <<"driving","distance">>, <<"driving","accuracy">>,
            <<"greens","in","regulation">>, <<"scoring","average">>,
            <<"money","earned">>, <<"fedex","rank">> >>

hMean == <<"m", "e", "a", "n">>
hAvg == <<"a", "v", "g">>
hAverage == <<"a", "v", "e", "r", "a", "g", "e">>
hSgTotal == <<"s", "g", ":", "t", "o", "t", "a", "l">>
hDistance == <<"d", "i", "s", "t", "a", "n", "c", "e">>
hPercent == <<"%">>
hPct == <<"p", "c", "t">>
hAccuracy == <<"a", "c", "c", "u", "r", "a", "c", "y">>
hGreensInReg == <<"g", "r", "e", "e", "n", "s", " ", "i", "n", " ", "r", "e", "g">>
hMoney == <<"m", "o", "n", "e", "y">>
hEarnings == <<"e", "a", "r", "n", "i", "n", "g", "s">>
hDollar == <<"$">>
hAmount == <<"a", "m", "o", "u", "n", "t">>
hRank == <<"r", "a", "n", "k">>
hPoints == <<"p", "o", "i", "n", "t", "s">>
hFedexcup == <<"f", "e", "d", "e", "x", "c", "u", "p">>
hStrokes == <<"s", "t", "r", "o", "k", "e", "s">>
hFinishPosition == <<"f", "i", "n", "i", "s", "h", " ", "p", "o", "s", "i", "t", "i", "o", "n">>

\* STAT_SPEC: stat name -> [output_col, hints]
STAT_SPEC ==
  [s \in {Stats[i] : i \in 1..Len(Stats)} |->
     CASE s = <<"sg","total">> ->
            [output_col |-> "sg_total", hints |-> <<hMean, hAvg, hAverage, hSgTotal>>]
       [] s = <<"sg","ott">> ->
            [output_col |-> "sg_off_the_tee", hints |-> <<hMean, hAvg, hAverage>>]
       [] s = <<"sg","app">> ->
            [output_col |-> "sg_approach", hints |-> <<hMean, hAvg, hAverage>>]
       [] s = <<"sg","arg">> ->
            [output_col |-> "sg_around_green", hints |-> <<hMean, hAvg, hAverage>>]
       [] s = <<"sg","putt">> ->
            [output_col |-> "sg_putting", hints |-> <<hMean, hAvg, hAverage>>]
       [] s = <<"driving","distance">> ->
            [output_col |-> "driving_distance", hints |-> <<hAvg, hAverage, hDistance>>]
       [] s = <<"driving","accuracy">> ->
            [output_col |-> "driving_accuracy", hints |-> <<hPercent, hPct, hAccuracy>>]
       [] s = <<"greens","in","regulation">> ->
            [output_col |-> "greens_in_regulation",
             hints |-> <<hPercent, hPct, hGreensInReg>>]
       [] s = <<"scoring","average">> ->
            [output_col |-> "scoring_average", hints |-> <<hAvg, hAverage, hMean>>]
       [] s = <<"money","earned">> ->
            [output_col |-> "money_earned",
             hints |-> <<hMoney, hEarnings, hDollar, hAmount>>]
       [] s = <<"fedex","rank">> ->
            [output_col |-> "final_season_rank",
             hints |-> <<hRank, hPoints, hFedexcup, hStrokes, hFinishPosition>>]]

----------------------------------------------------------------------------
(* parse_stats.py: column detection                                        *)

\* " ".join(col.strip().lower().split())
normalize_col_name(col) == JoinWords(SplitWords(Lower(Strip(col)), <<>>, <<>>))

kwPlayer == <<"p", "l", "a", "y", "e", "r">>
kwId == <<"i", "d">>
kwName == <<"n", "a", "m", "e">>

\* the (priority, col) candidates, in column order
RECURSIVE PlayerCandidates(_)
PlayerCandidates(columns) ==
  IF columns = <<>> THEN <<>>
  ELSE LET col  == Head(columns)
           norm == normalize_col_name(col)
           rest == PlayerCandidates(Tail(columns))
       IN IF Contains(norm, kwPlayer) /\ ~Contains(norm, kwId)
            THEN <<[prio |-> 0, col |-> col]>> \o rest
            ELSE IF Contains(norm, kwName)
                   THEN <<[prio |-> 1, col |-> col]>> \o rest
                   ELSE rest

\* a plausible slip: the candidates are left in column order
UnsortedCandidates(cands) == cands

\* candidates.sort(key=lambda x: x[0]): a stable sort over the keys 0 and 1
SortCandidates(cands) ==
  SelectSeq(cands, LAMBDA c : c.prio = 0) \o SelectSeq(cands, LAMBDA c : c.prio = 1)

find_player_name_column(columns) ==
  LET candidates == PlayerCandidates(columns)
  IN IF candidates # <<>>
       THEN SortCandidates(candidates)[1].col
       ELSE columns[1]


\* no call made yet
NoRet == [op |-> "none"]

\* no column chosen
NoCol == NULL

\* a plausible slip: the hints are tried in list order, each over all columns
RECURSIVE HintMajorMatch(_, _)
HintMajorMatch(columns, hints) ==
  IF hints = <<>> THEN NoCol
  ELSE LET hit == SelectSeq(columns,
                            LAMBDA col : Contains(normalize_col_name(col), Head(hints)))
       IN IF hit # <<>> THEN hit[1] ELSE HintMajorMatch(columns, Tail(hints))

\* for col, norm in norm_map.items(): for h in hints: if h in norm: return col
RECURSIVE HintMatch(_, _)
HintMatch(columns, hints) ==
  IF columns = <<>> THEN NoCol
  ELSE IF \E j \in 1..Len(hints) : Contains(normalize_col_name(Head(columns)), hints[j])
         THEN Head(columns)
         ELSE HintMatch(Tail(columns), hints)

bad_keywords ==
  << <<"r", "a", "n", "k">>, <<"t", "h", "i", "s", " ", "w", "e", "e", "k">>,
     <<"l", "a", "s", "t", " ", "w", "e", "e", "k">>, <<"e", "v", "e", "n", "t">>,
     <<"t", "o", "u", "r", "n", "a", "m", "e", "n", "t">>, <<"r", "o", "u", "n", "d">>,
     <<"m", "o", "v", "e", "m", "e", "n", "t">> >>

\* the cell of row r of df in the column named col (missing fields read as NaN)
ColIndex(columns, col) == CHOOSE i \in 1..Len(columns) : columns[i] = col

Cell(df, r, col) ==
  LET i == ColIndex(df.columns, col)
  IN IF i <= Len(df.rows[r]) THEN df.rows[r][i] ELSE NULL

\* s.notna().sum() of the coerced column
NonNullCount(df, col) ==
  Cardinality({r \in 1..Len(df.rows) : CoerceNumeric(Cell(df, r, col)) # NaN})

\* the (col, non_null) candidates of the fallback, in column order
RECURSIVE NumericCandidates(_, _, _)
NumericCandidates(df, columns, player_col) ==
  IF columns = <<>> THEN <<>>
  ELSE LET col  == Head(columns)
           norm == normalize_col_name(col)
           rest == NumericCandidates(df, Tail(columns), player_col)
           n    == NonNullCount(df, col)
       IN IF col = player_col THEN rest
          ELSE IF \E b \in 1..Len(bad_keywords) : Contains(norm, bad_keywords[b])
                 THEN rest
                 ELSE IF n > 0 THEN <<[col |-> col, n |-> n]>> \o rest ELSE rest

\* numeric_candidates.sort(key=count, reverse=True)[0]: the first candidate, in
\* column order, with the largest count (the sort is stable)
BestCandidate(cands) ==
  LET top == CHOOSE m \in {cands[i].n : i \in 1..Len(cands)} :
               \A i \in 1..Len(cands) : cands[i].n <= m
  IN SelectSeq(cands, LAMBDA c : c.n = top)[1].col

\* find_value_column(df, stat_name): [ok, col]; ok = FALSE when it raises
find_value_column(df, stat_name) ==
  IF stat_name \notin DOMAIN STAT_SPEC THEN [ok |-> FALSE, col |-> NoCol]
  ELSE LET spec   == STAT_SPEC[stat_name]
           hints  == [j \in 1..Len(spec.hints) |-> Lower(spec.hints[j])]
           hinted == HintMatch(df.columns, hints)
           player_col == find_player_name_column(df.columns)
           numeric_candidates == NumericCandidates(df, df.columns, player_col)
       IN IF hinted # NoCol THEN [ok |-> TRUE, col |-> hinted]
          ELSE IF numeric_candidates = <<>> THEN [ok |-> FALSE, col |-> NoCol]
          ELSE [ok |-> TRUE, col |-> BestCandidate(numeric_candidates)]

----------------------------------------------------------------------------
(* parse_stats.py: parse_one_file and main                                 *)

\* the year tokens that int() accepts, and their values
YearStrs == <<"2023", "2024">>

YearInts == <<2023, 2024>>

IsIntStr(s) == \E i \in 1..Len(YearStrs) : YearStrs[i] = s

\* int(year_str)
IntOf(s) == YearInts[CHOOSE i \in 1..Len(YearStrs) : YearStrs[i] = s]

\* str(year) inside an f-string
StrOf(y) == YearStrs[CHOOSE i \in 1..Len(YearInts) : YearInts[i] = y]

fedex_cols_8 ==
  << <<"R", "A", "N", "K">>,
     <<"M", "O", "V", "E", "M", "E", "N", "T">>,
     <<"P", "L", "A", "Y", "E", "R", "_", "I", "D">>,
     <<"P", "L", "A", "Y", "E", "R">>,
     <<"F", "I", "N", "I", "S", "H", " ", "P", "O", "S", "I", "T", "I", "O", "N">>,
     <<"#", " ", "O", "F", " ", "W", "I", "N", "S">>,
     <<"#", " ", "O", "F", " ", "T", "O", "P", "-", "1", "0", "S">>,
     <<"F", "E", "D", "E", "X", "C", "U", "P", " ", "S", "T", "R", "O", "K", "E", "S">> >>

\* pd.read_csv of a raw file: fedex_rank files get the fixed 8 column names
\* (header row skipped, short rows padded with NaN by Cell)
ReadRawCsv(stat_name, file) ==
  IF stat_name = <<"fedex", "rank">>
    THEN [columns |-> fedex_cols_8, rows |-> file.rows]
    ELSE [columns |-> file.columns, rows |-> file.rows]

\* out.dropna(subset=[...]): rows with a missing cell in a subset column go
DropNa(rows, subset) ==
  SelectSeq(rows, LAMBDA r : \A col \in subset : r.c[col] # NULL)

\* a plausible slip: keep="last"
DropDuplicatesLast(rows, col) ==
  SelectSeq(rows, LAMBDA r :
     ~\E q \in 1..Len(rows) : rows[q].idx > r.idx /\ rows[q].c[col] = r.c[col])

\* out.drop_duplicates(subset=[col]): the first row of each value stays
DropDuplicates(rows, col) ==
  SelectSeq(rows, LAMBDA r :
     ~\E q \in 1..Len(rows) : rows[q].idx < r.idx /\ rows[q].c[col] = r.c[col])

\* the frame built at lines 237-243: one row per raw row, index = raw position
TidyRows(df, year, player_col, value_col, output_col) ==
  [r \in 1..Len(df.rows) |->
     [idx |-> r,
      c   |-> ("year" :> year)
              @@ ("player_name" :> Strip(AsTypeStr(Cell(df, r, player_col))))
              @@ (output_col :> CoerceNumeric(Cell(df, r, value_col)))]]

Raised == [ok |-> FALSE, columns |-> <<>>, rows |-> <<>>]

\* parse_one_file(path): [ok, columns, rows]; ok = FALSE when it raises.
\* stem is path.stem split at "_"; file is the raw file's content.
parse_one_file(stem, file) ==
  IF Len(stem) < 2 THEN Raised                       \* rsplit gives one part
  ELSE LET stat_name == SubSeq(stem, 1, Len(stem) - 1)
           year_str  == stem[Len(stem)]
       IN IF ~IsIntStr(year_str) THEN Raised          \* int(year_str)
          ELSE IF stat_name \notin DOMAIN STAT_SPEC THEN Raised
          ELSE IF ~file.ok THEN Raised                \* read_csv fails
          ELSE LET df_raw     == ReadRawCsv(stat_name, file)
                   output_col == STAT_SPEC[stat_name].output_col
                   player_col == find_player_name_column(df_raw.columns)
                   value      == find_value_column(df_raw, stat_name)
               IN IF ~value.ok THEN Raised
                  ELSE LET out == TidyRows(df_raw, IntOf(year_str), player_col,
                                           value.col, output_col)
                       IN [ok      |-> TRUE,
                           columns |-> <<"year", "player_name", output_col>>,
                           rows    |-> DropDuplicates(
                                         DropNa(out, {"player_name", output_col}),
                                         "player_name")]

\* df.to_csv(path, index=False): the file keeps the columns and the cells
ToCsv(df) == [ok |-> TRUE, columns |-> df.columns,
              rows |-> [r \in 1..Len(df.rows) |-> df.rows[r].c]]

\* a plausible slip: the run starts by emptying data/intermediate
RunStartCleared(inter) == [inter |-> <<>>, written |-> {}, skipped |-> {}]

\* main() starts from data/intermediate as it finds it (nothing is removed)
RunStart(inter) == [inter |-> inter, written |-> {}, skipped |-> {}]

\* lines 260-269 for one path, given what parse_one_file gave: an exception
\* skips the file, otherwise the tidy file of the same stem is (over)written
AfterFile(acc, stem, out) ==
  IF ~out.ok
    THEN [acc EXCEPT !.skipped = @ \cup {stem}]
    ELSE [acc EXCEPT !.inter = (stem :> ToCsv(out)) @@ @,
                     !.written = @ \cup {stem}]

\* a plausible slip: no try/except around parse_one_file, so the first file
\* whose parse raises ends the run
RECURSIVE ParseLoopStopsAtError(_, _, _)
ParseLoopStopsAtError(raw, todo, acc) ==
  IF todo = {} THEN acc
  ELSE LET stem == CHOOSE st \in todo : TRUE
           out  == parse_one_file(stem, raw[stem])
       IN IF ~out.ok THEN [acc EXCEPT !.skipped = @ \cup {stem}]
          ELSE ParseLoopStopsAtError(raw, todo \ {stem}, AfterFile(acc, stem, out))

\* the loop of lines 259-273 over the raw files still to do (each iteration
\* touches the tidy file of its own stem only, so the order does not show)
RECURSIVE ParseLoop(_, _, _)
ParseLoop(raw, todo, acc) ==
  IF todo = {} THEN acc
  ELSE LET stem == CHOOSE st \in todo : TRUE
       IN ParseLoop(raw, todo \ {stem},
                    AfterFile(acc, stem, parse_one_file(stem, raw[stem])))

\* main(): returns at once when data/raw holds no CSV file
parse_main(raw, inter) ==
  IF DOMAIN raw = {} THEN [inter |-> inter, written |-> {}, skipped |-> {}]
  ELSE ParseLoop(raw, DOMAIN raw, RunStart(inter))

----------------------------------------------------------------------------
(* build_master.py: load_stat_for_year and build_for_year                  *)

\* STAT_COLUMNS, in mapping order (the stats are those of Stats, in order)
STAT_COLUMNS ==
  [s \in {Stats[i] : i \in 1..Len(Stats)} |->
     CASE s = <<"sg","total">> -> "sg_total"
       [] s = <<"sg","ott">> -> "sg_off_the_tee"
       [] s = <<"sg","app">> -> "sg_approach"
       [] s = <<"sg","arg">> -> "sg_around_green"
       [] s = <<"sg","putt">> -> "sg_putting"
       [] s = <<"driving","distance">> -> "driving_distance"
       [] s = <<"driving","accuracy">> -> "driving_accuracy"
       [] s = <<"greens","in","regulation">> -> "greens_in_regulation"
       [] s = <<"scoring","average">> -> "scoring_average"
       [] s = <<"money","earned">> -> "money_earned"
       [] s = <<"fedex","rank">> -> "final_season_rank"]

expected_cols ==
  <<"year", "player_name", "sg_total", "sg_off_the_tee", "sg_approach",
    "sg_around_green", "sg_putting", "driving_distance", "driving_accuracy",
    "greens_in_regulation", "scoring_average", "money_earned",
    "final_season_rank", "sg_tee_to_green">>

SeqToSet(q) == {q[i] : i \in 1..Len(q)}

\* the texts pd.read_csv reads as a missing value (those the model can write)
NaStrings == {<<>>, <<"n", "a", "n">>}

\* pd.read_csv(path) of a tidy file: NA-like player names come back as NaN
ReadCsv(file) ==
  [columns |-> file.columns,
   rows    |-> [r \in 1..Len(file.rows) |->
                  [col \in DOMAIN file.rows[r] |->
                     IF col = "player_name" /\ file.rows[r][col] \in NaStrings
                       THEN NULL ELSE file.rows[r][col]]]]

\* f"{stat_name}_{year}.csv"
StatPath(stat_name, year) == Append(stat_name, StrOf(year))

\* load_stat_for_year: kind is "frame", "none" (returns None),
\* "missing" (FileNotFoundError) or "error" (any other exception)
load_stat_for_year(dir, stat_name, year, col_name) ==
  LET path == StatPath(stat_name, year)
      NoFrame == [columns |-> <<>>, rows |-> <<>>]
  IN IF path \notin DOMAIN dir THEN [kind |-> "missing", df |-> NoFrame]
     ELSE IF ~dir[path].ok THEN [kind |-> "error", df |-> NoFrame]
     ELSE LET df == ReadCsv(dir[path])
              cols == SeqToSet(df.columns)
              kept == SelectSeq(df.rows, LAMBDA r : r["player_name"] # NULL)
          IN IF Len(df.rows) = 0 THEN [kind |-> "none", df |-> NoFrame]
             ELSE IF "year" \notin cols \/ "player_name" \notin cols
                    THEN [kind |-> "error", df |-> NoFrame]
             ELSE IF col_name \notin cols THEN [kind |-> "error", df |-> NoFrame]
             ELSE IF Len(kept) = 0 THEN [kind |-> "none", df |-> NoFrame]
             ELSE [kind |-> "frame",
                   df   |-> [columns |-> <<"year", "player_name", col_name>>,
                             rows    |-> [r \in 1..Len(kept) |->
                                            [col \in {"year", "player_name", col_name}
                                               |-> kept[r][col]]]]]

\* Python's order on characters (code points) and on strings
CharOrder == <<" ", "#", "$", "%", ",", "-", "0", "1", "2", "3", "4", "5", "6",
               "7", "8", "9", ":", "_">> \o UpperChars \o LowerChars

CharRank(c) == CHOOSE i \in 1..Len(CharOrder) : CharOrder[i] = c

RECURSIVE StrLess(_, _)
StrLess(a, b) ==
  IF b = <<>> THEN FALSE
  ELSE IF a = <<>> THEN TRUE
  ELSE IF Head(a) = Head(b) THEN StrLess(Tail(a), Tail(b))
  ELSE CharRank(Head(a)) < CharRank(Head(b))

KeyOf(row) == <<row["year"], row["player_name"]>>

KeyLess(k1, k2) == k1[1] < k2[1] \/ (k1[1] = k2[1] /\ StrLess(k1[2], k2[2]))

\* the keys of a set, ascending
RECURSIVE SortedKeys(_)
SortedKeys(ks) ==
  IF ks = {} THEN <<>>
  ELSE LET least == CHOOSE k \in ks : \A o \in ks \ {k} : KeyLess(k, o)
       IN <<least>> \o SortedKeys(ks \ {least})

\* a row over the columns cols: the cells of l and r, NaN where neither has one
JoinRow(cols, l, r) ==
  [col \in cols |-> IF col \in DOMAIN l THEN l[col]
                    ELSE IF col \in DOMAIN r THEN r[col] ELSE NULL]

RECURSIVE Flatten(_)
Flatten(qs) == IF qs = <<>> THEN <<>> ELSE Head(qs) \o Flatten(Tail(qs))

\* the rows of one key in a merge: every left/right pair, or the one side alone
MergeKeyRows(cols, L, R, withLeftOnly, withRightOnly) ==
  IF L # <<>> /\ R # <<>>
    THEN Flatten([i \in 1..Len(L) |-> [j \in 1..Len(R) |-> JoinRow(cols, L[i], R[j])]])
    ELSE IF L # <<>>
           THEN IF withLeftOnly
                  THEN [i \in 1..Len(L) |-> JoinRow(cols, L[i], <<>>)] ELSE <<>>
           ELSE IF withRightOnly
                  THEN [j \in 1..Len(R) |-> JoinRow(cols, <<>>, R[j])] ELSE <<>>

MergeHow(left, right, withLeftOnly, withRightOnly) ==
  LET columns == left.columns
                 \o SelectSeq(right.columns, LAMBDA c : c \notin {"year", "player_name"})
      cols == SeqToSet(columns)
      keys == SortedKeys({KeyOf(left.rows[i]) : i \in 1..Len(left.rows)}
                         \cup {KeyOf(right.rows[i]) : i \in 1..Len(right.rows)})
  IN [columns |-> columns,
      rows |-> Flatten([k \in 1..Len(keys) |->
                 MergeKeyRows(cols,
                              SelectSeq(left.rows, LAMBDA r : KeyOf(r) = keys[k]),
                              SelectSeq(right.rows, LAMBDA r : KeyOf(r) = keys[k]),
                              withLeftOnly, withRightOnly)])]

\* a plausible slip: how="inner"
MergeInner(left, right) == MergeHow(left, right, FALSE, FALSE)

\* pd.merge(left, right, on=["year", "player_name"], how="outer")
Merge(left, right) == MergeHow(left, right, TRUE, TRUE)

\* reduce(lambda left, right: pd.merge(...), frames)
RECURSIVE Reduce(_, _)
Reduce(acc, frames) ==
  IF frames = <<>> THEN acc ELSE Reduce(Merge(acc, Head(frames)), Tail(frames))

\* a + b + c on float cells: NaN when any operand is NaN
Add3(a, b, c) ==
  IF a = NaN \/ b = NaN \/ c = NaN THEN NaN ELSE Num(a[1] + b[1] + c[1])

\* a plausible slip: one component left out of the sum
TeeToGreenTwo(row) == Add3(row["sg_off_the_tee"], row["sg_approach"], Num(0))

\* merged["sg_off_the_tee"] + merged["sg_approach"] + merged["sg_around_green"]
TeeToGreen(row) ==
  Add3(row["sg_off_the_tee"], row["sg_approach"], row["sg_around_green"])

\* lines 119-126: the derived column, when the three components are columns
WithTeeToGreen(merged) ==
  IF {"sg_off_the_tee", "sg_approach", "sg_around_green"} \subseteq SeqToSet(merged.columns)
    THEN [columns |-> Append(merged.columns, "sg_tee_to_green"),
          rows    |-> [r \in 1..Len(merged.rows) |->
                         merged.rows[r] @@ ("sg_tee_to_green" :> TeeToGreen(merged.rows[r]))]]
    ELSE merged

\* lines 148-151: every expected column that is absent is added, all None
RECURSIVE Backfill(_, _)
Backfill(merged, cols) ==
  IF cols = <<>> THEN merged
  ELSE IF Head(cols) \in SeqToSet(merged.columns) THEN Backfill(merged, Tail(cols))
  ELSE Backfill([columns |-> Append(merged.columns, Head(cols)),
                 rows    |-> [r \in 1..Len(merged.rows) |->
                                merged.rows[r] @@ (Head(cols) :> NULL)]],
                Tail(cols))

\* a plausible slip: the frame is returned without the reordering step
KeepColumns(merged, cols) == merged

\* merged[expected_cols]
SelectColumns(merged, cols) ==
  [columns |-> cols,
   rows    |-> [r \in 1..Len(merged.rows) |-> [col \in SeqToSet(cols) |-> merged.rows[r][col]]]]

\* merged.sort_values(["year", "player_name"]).reset_index(drop=True)
RECURSIVE SortRows(_)
SortRows(rows) ==
  IF rows = <<>> THEN <<>>
  ELSE LET i == CHOOSE i \in 1..Len(rows) :
                  \A j \in 1..Len(rows) :
                     ~KeyLess(KeyOf(rows[j]), KeyOf(rows[i])) /\
                     (KeyOf(rows[j]) = KeyOf(rows[i]) => i <= j)
       IN <<rows[i]>> \o SortRows(SubSeq(rows, 1, i - 1) \o SubSeq(rows, i + 1, Len(rows)))

SortFrame(df) == [columns |-> df.columns, rows |-> SortRows(df.rows)]

\* the loop of lines 71-89 over STAT_COLUMNS, from stat number i on
RECURSIVE LoadStats(_, _, _, _)
LoadStats(dir, year, i, acc) ==
  IF i > Len(Stats) THEN acc
  ELSE LET stat_name == Stats[i]
           got == load_stat_for_year(dir, stat_name, year, STAT_COLUMNS[stat_name])
       IN LoadStats(dir, year, i + 1,
            CASE got.kind = "frame" ->
                   [acc EXCEPT !.frames = Append(@, got.df),
                               !.stats_loaded = Append(@, stat_name)]
              [] got.kind = "none" ->
                   [acc EXCEPT !.stats_empty = Append(@, stat_name)]
              [] OTHER ->
                   [acc EXCEPT !.stats_skipped = Append(@, stat_name)])

\* a plausible slip: the year fails as soon as one stat was skipped or empty
RaisesOnAnySkip(loaded) ==
  loaded.frames = <<>> \/ loaded.stats_skipped # <<>> \/ loaded.stats_empty # <<>>

\* if not frames: raise ValueError(...)
NoFrames(loaded) == loaded.frames = <<>>

\* lines 91-158 of build_for_year, given what the loop loaded
BuildFrom(loaded) ==
  IF NoFrames(loaded)
    THEN [raised |-> TRUE, stats_loaded |-> loaded.stats_loaded,
          stats_skipped |-> loaded.stats_skipped,
          stats_empty |-> loaded.stats_empty,
          df |-> [columns |-> <<>>, rows |-> <<>>]]
    ELSE [raised |-> FALSE, stats_loaded |-> loaded.stats_loaded,
          stats_skipped |-> loaded.stats_skipped,
          stats_empty |-> loaded.stats_empty,
          df |-> SortFrame(
                   SelectColumns(
                      Backfill(
                         WithTeeToGreen(Reduce(Head(loaded.frames), Tail(loaded.frames))),
                         expected_cols),
                      expected_cols))]

\* build_for_year(year) over the tidy directory dir: raised = TRUE when it
\* raises (the error names stats_skipped and stats_empty), else df is returned
build_for_year(dir, year) ==
  BuildFrom(LoadStats(dir, year, 1,
              [frames |-> <<>>, stats_loaded |-> <<>>,
               stats_skipped |-> <<>>, stats_empty |-> <<>>]))

----------------------------------------------------------------------------
(* build_master.py: main                                                   *)

\* lines 163-170: the years named by the tidy files' stems; a stem without
\* "_" or with a non-integer last part is passed over
DiscoverYears(dir) ==
  {IntOf(stem[Len(stem)]) :
     stem \in {st \in DOMAIN dir : Len(st) >= 2 /\ IsIntStr(st[Len(st)])}}

\* sorted(years)
RECURSIVE SortedInts(_)
SortedInts(ys) ==
  IF ys = {} THEN <<>>
  ELSE LET least == CHOOSE y \in ys : \A o \in ys : y <= o
       IN <<least>> \o SortedInts(ys \ {least})

\* df.to_csv(path, index=False) of a merged frame
FrameToCsv(df) == [ok |-> TRUE, columns |-> df.columns, rows |-> df.rows]

\* pd.concat(all_years, ignore_index=True)
Concat(frames) ==
  [columns |-> frames[1].columns,
   rows    |-> Flatten([i \in 1..Len(frames) |-> frames[i].rows])]

YearPath(y) == <<"master", StrOf(y)>>

MasterPath == <<"master", "player", "seasons">>

RECURSIVE MergeYears(_, _, _, _)

\* a plausible slip: a year whose build_for_year raises is passed over
SkipYear(dir, years, i, acc, got) == MergeYears(dir, years, i + 1, acc)

\* build_for_year's exception is not caught: the run ends at that year
Abort(dir, years, i, acc, got) ==
  [acc EXCEPT !.aborted = TRUE, !.failed_year = years[i],
              !.stats_skipped = got.stats_skipped,
              !.stats_empty = got.stats_empty]

\* one iteration of lines 180-186, given what build_for_year gave
MergeStep(dir, years, i, acc, got) ==
  IF got.raised
    THEN Abort(dir, years, i, acc, got)
    ELSE MergeYears(dir, years, i + 1,
           [acc EXCEPT !.proc = (YearPath(years[i]) :> FrameToCsv(got.df)) @@ @,
                       !.written = Append(@, YearPath(years[i])),
                       !.all_years = Append(@, got.df)])

\* the loop of lines 180-186 from position i on
MergeYears(dir, years, i, acc) ==
  IF i > Len(years) THEN acc
  ELSE MergeStep(dir, years, i, acc, build_for_year(dir, years[i]))

\* lines 188-190: the all-years file, when the loop came through (pd.concat
\* of no frames raises, so nothing is written then either)
FinishRun(run) ==
  IF run.aborted \/ run.all_years = <<>> THEN run
  ELSE [run EXCEPT !.proc = (MasterPath :> FrameToCsv(Concat(run.all_years))) @@ @,
                   !.written = Append(@, MasterPath)]

\* main(): the run's outcome and the processed directory it leaves
build_main(dir, proc) ==
  LET years == SortedInts(DiscoverYears(dir))
      start == [proc |-> proc, written |-> <<>>, all_years |-> <<>>,
                aborted |-> FALSE, failed_year |-> 0,
                stats_skipped |-> <<>>, stats_empty |-> <<>>, years |-> years]
  IN IF years = <<>> THEN start
     ELSE FinishRun(MergeYears(dir, years, 1, start))

----------------------------------------------------------------------------
(* Inputs of the merge checks                                              *)

MaxVal == 2

BuildYear == IntOf("2024")

ModelYears == SeqToSet(YearInts)

TidyRow(year, name, col, v) ==
  ("year" :> year) @@ ("player_name" :> name) @@ (col :> Num(v))

TidyFile(col, rows) ==
  [ok |-> TRUE, columns |-> <<"year", "player_name", col>>, rows |-> rows]

Absent == [ok |-> FALSE, columns |-> <<"absent">>, rows |-> <<>>]

Unreadable == [ok |-> FALSE, columns |-> <<>>, rows |-> <<>>]

\* what the tidy file of one stat can hold: nothing readable, a header only,
\* a foreign value column, or one row per player (a "nan" name is what the
\* normalizer writes for a raw row without a player name)
TidyOptions(year, col) ==
  {Unreadable,
   TidyFile(col, <<>>),
   TidyFile("value", <<TidyRow(year, tAnn, "value", 1)>>),
   TidyFile(col, <<TidyRow(year, tNan, col, 1)>>)}
  \cup {TidyFile(col, <<TidyRow(year, tAnn, col, v)>>) : v \in 1..MaxVal}
  \cup {TidyFile(col, <<TidyRow(year, tBob, col, v)>>) : v \in 1..MaxVal}
  \cup {TidyFile(col, <<TidyRow(year, tNan, col, 1), TidyRow(year, tAnn, col, v)>>) :
          v \in 1..MaxVal}
  \cup {TidyFile(col, <<TidyRow(year, tAnn, col, v), TidyRow(year, tBob, col, w)>>) :
          v \in 1..MaxVal, w \in 1..MaxVal}

\* the directory that holds file choice[s] for every stat s it is not Absent for
DirOf(year, choice) ==
  [stem \in {StatPath(s, year) : s \in {t \in DOMAIN choice : choice[t] # Absent}}
     |-> choice[SubSeq(stem, 1, Len(stem) - 1)]]

InitBuild ==
  /\ rawDir = <<>>
  /\ \E ott \in TidyOptions(BuildYear, "sg_off_the_tee") \cup {Absent},
        app \in TidyOptions(BuildYear, "sg_approach") \cup {Absent},
        arg \in TidyOptions(BuildYear, "sg_around_green") \cup {Absent} :
        interDir = DirOf(BuildYear, (<<"sg","ott">> :> ott) @@ (<<"sg","app">> :> app)
                                    @@ (<<"sg","arg">> :> arg))
  /\ procDir = <<>>
  /\ ret = NoRet

\* one call of build_for_year
BuildForYear ==
  \E year \in ModelYears :
    \E got \in {build_for_year(interDir, year)} :
       /\ ret' = [op |-> "build_for_year", year |-> year, raised |-> got.raised,
                  stats_loaded |-> got.stats_loaded,
                  stats_skipped |-> got.stats_skipped,
                  stats_empty |-> got.stats_empty, df |-> got.df]
       /\ UNCHANGED <<rawDir, interDir, procDir>>

\* one merge run (build_master.main)
BuildMain ==
  \E run \in {build_main(interDir, procDir)} :
     /\ procDir' = run.proc
     /\ ret' = [op |-> "build_main", years |-> run.years, aborted |-> run.aborted,
                failed_year |-> run.failed_year, written |-> run.written,
                stats_skipped |-> run.stats_skipped, stats_empty |-> run.stats_empty]
     /\ UNCHANGED <<rawDir, interDir>>

NextBuild == BuildForYear \/ BuildMain

SpecBuild == InitBuild /\ [][NextBuild]_vars

----------------------------------------------------------------------------
(* Inputs of the column-detection and parse checks                         *)

MaxCols == 3

MaxRows == 3

cPLAYER == <<"P", "L", "A", "Y", "E", "R">>
cPlayerName == <<"P", "l", "a", "y", "e", "r", " ", "N", "a", "m", "e">>
cPlayerId == <<"P", "L", "A", "Y", "E", "R", "_", "I", "D">>
cName == <<"N", "a", "m", "e">>
cAVG == <<"A", "V", "G">>
cAverage == <<"A", "v", "e", "r", "a", "g", "e">>
cRANK == <<"R", "A", "N", "K">>
cGreens == <<" ", "G", "r", "e", "e", "n", "s", " ", " ", "I", "n", " ", "R", "e", "g", " ">>
cTotal == <<"T", "o", "t", "a", "l">>

ColNames == {cPLAYER, cPlayerName, cPlayerId, cName, cAVG, cAverage, cRANK,
             cGreens, cTotal}

\* the two data cells under each column name in the column-detection inputs
FindCells(col) ==
  CASE col \in {cPLAYER, cPlayerName, cName} -> <<tAnn, tBob>>
    [] col \in {cPlayerId, cAVG, cRANK}      -> <<tOne, tTwo>>
    [] col = cGreens                          -> <<tPct, tX>>
    [] OTHER                                  -> <<tOne, tX>>

IsInjective(f) == \A i, j \in DOMAIN f : f[i] = f[j] => i = j

\* lists of distinct column names (pandas reads a header into distinct names)
ColumnLists ==
  {cols \in UNION {[1..n -> ColNames] : n \in 1..MaxCols} : IsInjective(cols)}

FindFile(cols) ==
  [ok |-> TRUE, columns |-> cols,
   rows |-> [r \in 1..2 |-> [i \in 1..Len(cols) |-> FindCells(cols[i])[r]]]]

FindStats == {<<"scoring","average">>, <<"greens","in","regulation">>,
              <<"fedex","rank">>}

InitFind ==
  /\ \E st \in FindStats, cols \in ColumnLists :
        rawDir = (Append(st, "2024") :> FindFile(cols))
  /\ interDir = <<>>
  /\ procDir = <<>>
  /\ ret = NoRet

\* one call of find_player_name_column on the raw frame
FindPlayerNameColumn ==
  \E stem \in DOMAIN rawDir :
    /\ ret' = [op |-> "find_player_name_column", stem |-> stem, ok |-> TRUE,
               col |-> find_player_name_column(rawDir[stem].columns)]
    /\ UNCHANGED <<rawDir, interDir, procDir>>

\* one call of find_value_column on the raw frame
FindValueColumn ==
  \E stem \in DOMAIN rawDir :
    LET v == find_value_column(rawDir[stem], SubSeq(stem, 1, Len(stem) - 1))
    IN /\ ret' = [op |-> "find_value_column", stem |-> stem, ok |-> v.ok,
                  col |-> v.col]
       /\ UNCHANGED <<rawDir, interDir, procDir>>

NextFind == FindPlayerNameColumn \/ FindValueColumn

SpecFind == InitFind /\ [][NextFind]_vars

PlayerCells == {NULL, tAnn, tAnnSp, tBob}

ValueCells == {tMoney, tX}

RawRows == {<<p, v>> : p \in PlayerCells, v \in ValueCells}

ParseFiles ==
  {[ok |-> TRUE, columns |-> <<cPLAYER, cAVG>>, rows |-> rows] :
      rows \in UNION {[1..n -> RawRows] : n \in 0..MaxRows}}
  \cup {[ok |-> TRUE, columns |-> <<cPLAYER, cRANK>>, rows |-> << <<tAnn, tOne>> >>],
        [ok |-> FALSE, columns |-> <<>>, rows |-> <<>>]}

ParseStems == {<<"sg","ott","2024">>, <<"fedex","rank","2023">>,
               <<"foo","2024">>, <<"sg","ott","final">>, <<"notes">>}

InitParse ==
  /\ \E stem \in ParseStems, file \in ParseFiles : rawDir = (stem :> file)
  /\ interDir = <<>>
  /\ procDir = <<>>
  /\ ret = NoRet

\* one call of parse_one_file on the raw file
ParseOneFile ==
  \E stem \in DOMAIN rawDir :
    LET out == parse_one_file(stem, rawDir[stem])
    IN /\ ret' = [op |-> "parse_one_file", stem |-> stem, ok |-> out.ok,
                  columns |-> out.columns, rows |-> out.rows]
       /\ UNCHANGED <<rawDir, interDir, procDir>>

NextParse == ParseOneFile

SpecParse == InitParse /\ [][NextParse]_vars

----------------------------------------------------------------------------
(* The pipeline: raw files come and go, normalize runs and merge runs      *)

RawGood == [ok |-> TRUE, columns |-> <<cPLAYER, cAVG>>,
            rows |-> << <<tAnn, tMoney>> >>]

RawAllBad == [ok |-> TRUE, columns |-> <<cPLAYER, cAVG>>,
              rows |-> << <<tAnn, tX>> >>]

RawNoValue == [ok |-> TRUE, columns |-> <<cPLAYER, cRANK>>,
               rows |-> << <<tAnn, tOne>> >>]

PipeFiles == {RawGood, RawAllBad, RawNoValue}

PipeStems == {<<"sg","ott","2023">>, <<"sg","ott","2024">>, <<"notes">>}

Init ==
  /\ rawDir = <<>>
  /\ interDir = <<>>
  /\ procDir = <<>>
  /\ ret = NoRet

\* a raw file is put into data/raw (by a download or by the operator)
PutRaw ==
  \E stem \in PipeStems, file \in PipeFiles :
    /\ rawDir' = (stem :> file) @@ rawDir
    /\ ret' = [op |-> "put_raw"]
    /\ UNCHANGED <<interDir, procDir>>

\* a raw file is removed from data/raw
RemoveRaw ==
  \E stem \in DOMAIN rawDir :
    /\ rawDir' = [st \in DOMAIN rawDir \ {stem} |-> rawDir[st]]
    /\ ret' = [op |-> "remove_raw"]
    /\ UNCHANGED <<interDir, procDir>>

\* one normalize run (parse_stats.main)
ParseMain ==
  \E run \in {parse_main(rawDir, interDir)} :
    /\ interDir' = run.inter
    /\ ret' = [op |-> "parse_main", written |-> run.written, skipped |-> run.skipped]
    /\ UNCHANGED <<rawDir, procDir>>

Next == PutRaw \/ RemoveRaw \/ ParseMain \/ BuildMain

Spec == Init /\ [][Next]_vars

----------------------------------------------------------------------------
(* One normalize run over a batch of raw files                             *)

\* a raw file pd.read_csv cannot read at all
RawUnreadable == [ok |-> FALSE, columns |-> <<>>, rows |-> <<>>]

BatchFiles == {RawGood, RawNoValue, RawUnreadable}

BatchStems == {<<"sg","ott","2024">>, <<"sg","app","2024">>,
               <<"fedex","rank","2023">>,
               <<"foo","2024">>, <<"sg","ott","final">>, <<"notes">>}

\* the tidy file an earlier run left for sg_ott_2024
StaleTidy == ToCsv(parse_one_file(<<"sg","ott","2024">>, RawGood))

InitBatch ==
  /\ \E stems \in SUBSET BatchStems :
        \E raw \in [stems -> BatchFiles] : rawDir = raw
  /\ interDir \in {<<>>, (<<"sg","ott","2024">> :> StaleTidy)}
  /\ procDir = <<>>
  /\ ret = NoRet

NextBatch == ParseMain

SpecBatch == InitBatch /\ [][NextBatch]_vars

----------------------------------------------------------------------------
(* download_stats.py: the fetch run                                        *)

MaxFetchStats == 2

\* YEARS, in list order (the seasons the model keeps)
YEARS == YearInts

\* the stat names of STAT_IDS, in mapping order (the first MaxFetchStats)
STAT_IDS == SubSeq(Stats, 1, MaxFetchStats)

\* resp.raise_for_status(): raises for a 4xx or 5xx status, and for no other
RaisesForStatus(status) == 400 <= status /\ status < 600

\* what requests.get can give: a response with a final status and a body, or
\* an exception (timeout, connection error) and no response
Responses ==
  {[kind |-> "response", status |-> st, content |-> body] :
      st \in {200, 304, 404, 500}, body \in {RawGood, RawAllBad}}
  \cup {[kind |-> "exception", status |-> 0, content |-> RawUnreadable]}

NoResponse == [kind |-> "none", status |-> 0, content |-> RawUnreadable]

\* a plausible slip: the body is saved before the status is looked at
DownloadSavesBeforeCheck(raw, stat_name, year, resp) ==
  IF resp.kind = "exception" THEN [raised |-> TRUE, raw |-> raw]
  ELSE [raised |-> RaisesForStatus(resp.status),
        raw    |-> (StatPath(stat_name, year) :> resp.content) @@ raw]

\* download_stat_csv(stat_name, stat_id, year), resp being what requests.get
\* gives: raised = TRUE when the call raises; raw is data/raw after the call
download_stat_csv(raw, stat_name, year, resp) ==
  IF resp.kind = "exception" THEN [raised |-> TRUE, raw |-> raw]
  ELSE IF RaisesForStatus(resp.status) THEN [raised |-> TRUE, raw |-> raw]
  ELSE [raised |-> FALSE,
        raw    |-> (StatPath(stat_name, year) :> resp.content) @@ raw]

\* main() is entered: the loops stand at the first year and the first stat
FetchMain ==
  /\ IF ret.op = "fetch" THEN ret.pc # "running" ELSE TRUE
  /\ ret' = [op |-> "fetch", pc |-> "running", yi |-> 1, si |-> 1,
             requested |-> <<>>, last |-> NoResponse]
  /\ UNCHANGED <<rawDir, interDir, procDir>>

\* one iteration of the nested loops of main(): one call of download_stat_csv.
\* An exception of the call is not caught and ends the run; otherwise the
\* inner loop moves to the next stat, then the outer loop to the next year.
DownloadStatCsv ==
  /\ ret.op = "fetch" /\ ret.pc = "running"
  /\ \E resp \in Responses :
       \E got \in {download_stat_csv(rawDir, STAT_IDS[ret.si], YEARS[ret.yi], resp)} :
          /\ rawDir' = got.raw
          /\ ret' = [ret EXCEPT
                       !.requested = Append(@, <<YEARS[ret.yi], STAT_IDS[ret.si]>>),
                       !.last = resp,
                       !.pc = IF got.raised THEN "aborted"
                              ELSE IF ret.si = Len(STAT_IDS) /\ ret.yi = Len(YEARS)
                                     THEN "done" ELSE "running",
                       !.si = IF got.raised THEN @
                              ELSE IF @ = Len(STAT_IDS) THEN 1 ELSE @ + 1,
                       !.yi = IF got.raised \/ ret.si < Len(STAT_IDS) THEN @ ELSE @ + 1]
  /\ UNCHANGED <<interDir, procDir>>

NextFetch == FetchMain \/ DownloadStatCsv

SpecFetch == Init /\ [][NextFetch]_vars

----------------------------------------------------------------------------
(* Column detection: C7, C8                                                *)

\* the raw frame a find_* call was made on, and its stat's lowered hints
FindArg == rawDir[ret.stem]

FindHints ==
  LET hs == STAT_SPEC[SubSeq(ret.stem, 1, Len(ret.stem) - 1)].hints
  IN [j \in 1..Len(hs) |-> Lower(hs[j])]

IsPlayerCol(col) ==
  /\ Contains(normalize_col_name(col), kwPlayer)
  /\ ~Contains(normalize_col_name(col), kwId)

IsNameCol(col) == Contains(normalize_col_name(col), kwName)

ColSet(columns) == {columns[i] : i \in 1..Len(columns)}

\* C8: find_player_name_column returns a column containing "player" and not
\* "id" if the frame has one; otherwise a column containing "name" if it has
\* one; otherwise the first column -- whatever the column order.
C8_PlayerColumnPriority ==
  ret.op = "find_player_name_column" =>
    LET cols == FindArg.columns
    IN IF \E c \in ColSet(cols) : IsPlayerCol(c)
         THEN IsPlayerCol(ret.col)
         ELSE IF \E c \in ColSet(cols) : IsNameCol(c)
                THEN IsNameCol(ret.col)
                ELSE ret.col = cols[1]

\* a "name" column stands before a qualifying "player" column, and the
\* "player" column was returned
C8_Witness ==
  /\ ret.op = "find_player_name_column"
  /\ \E i, j \in 1..Len(FindArg.columns) :
        /\ i < j
        /\ IsNameCol(FindArg.columns[i]) /\ ~IsPlayerCol(FindArg.columns[i])
        /\ IsPlayerCol(FindArg.columns[j])
        /\ ret.col = FindArg.columns[j]

\* the hints (by position) that are a substring of some normalized column name
MatchedHints(columns, hints) ==
  {j \in 1..Len(hints) :
     \E c \in ColSet(columns) : Contains(normalize_col_name(c), hints[j])}

MatchesAnyHint(col, hints) ==
  \E j \in 1..Len(hints) : Contains(normalize_col_name(col), hints[j])

\* C7 as stated: when some hint matches, the chosen column is one matched by
\* the earliest hint of the hint list that matches any column.
C7_EarliestHintWins ==
  (ret.op = "find_value_column" /\ MatchedHints(FindArg.columns, FindHints) # {}) =>
    LET first == CHOOSE j \in MatchedHints(FindArg.columns, FindHints) :
                   \A k \in MatchedHints(FindArg.columns, FindHints) : j <= k
    IN ret.ok /\ Contains(normalize_col_name(ret.col), FindHints[first])

\* C7 amended: when some hint matches, the chosen column is the first column,
\* in column order, whose normalized name contains any hint of the list; and
\* columns "Player Name", "AVG" under hints starting "avg", "average" give "AVG".
C7_FirstColumnWithAnyHint ==
  ret.op = "find_value_column" =>
    LET cols == FindArg.columns
    IN /\ MatchedHints(cols, FindHints) # {} =>
            /\ ret.ok
            /\ \E i \in 1..Len(cols) :
                  /\ ret.col = cols[i]
                  /\ MatchesAnyHint(cols[i], FindHints)
                  /\ \A k \in 1..(i - 1) : ~MatchesAnyHint(cols[k], FindHints)
       /\ (cols = <<cPlayerName, cAVG>> /\ ret.stem = <<"scoring","average","2024">>)
            => ret.col = cAVG

\* two columns match different hints, the one matching the later hint stands
\* first, and it was chosen
C7_Witness ==
  /\ ret.op = "find_value_column"
  /\ FindArg.columns = <<cAverage, cAVG>>
  /\ ret.stem = <<"scoring","average","2024">>
  /\ ret.col = cAverage

----------------------------------------------------------------------------
(* parse_one_file: C5, C6                                                  *)

\* the raw frame parse_one_file read, its player column and value column
ParsedRaw == ReadRawCsv(SubSeq(ret.stem, 1, Len(ret.stem) - 1), rawDir[ret.stem])

ParsedPlayerCol == find_player_name_column(ParsedRaw.columns)

ParsedValueCol ==
  find_value_column(ParsedRaw, SubSeq(ret.stem, 1, Len(ret.stem) - 1)).col

ParsedOutputCol == ret.columns[3]

\* the player name and the coerced value of raw row i
RawName(i) == Strip(AsTypeStr(Cell(ParsedRaw, i, ParsedPlayerCol)))

RawValue(i) == CoerceNumeric(Cell(ParsedRaw, i, ParsedValueCol))

Parsed == ret.op = "parse_one_file" /\ ret.ok

\* C5: every emitted row has a non-null player_name and a non-null value, and
\* comes from a raw row whose player-name cell is not null and whose value
\* cell coerces to a number.
C5_NoNullPlayerOrValue ==
  Parsed =>
    \A k \in 1..Len(ret.rows) :
       LET row == ret.rows[k]
       IN /\ row.c["player_name"] # NULL
          /\ row.c[ParsedOutputCol] # NaN
          /\ Cell(ParsedRaw, row.idx, ParsedPlayerCol) # NULL
          /\ RawValue(row.idx) # NaN

\* C6 as stated: no two emitted rows share a player_name, and each emitted row
\* is the first raw row carrying its player name (stated for the rows whose
\* raw player-name cell is not null).
C6_FirstRawOccurrenceKept ==
  Parsed =>
    /\ \A k, m \in 1..Len(ret.rows) :
          ret.rows[k].c["player_name"] = ret.rows[m].c["player_name"] => k = m
    /\ \A k \in 1..Len(ret.rows) :
          Cell(ParsedRaw, ret.rows[k].idx, ParsedPlayerCol) # NULL =>
            \A i \in 1..Len(ParsedRaw.rows) :
               (Cell(ParsedRaw, i, ParsedPlayerCol) # NULL
                  /\ RawName(i) = ret.rows[k].c["player_name"])
                 => ret.rows[k].idx <= i

\* C6 amended: no two emitted rows share a player_name; each emitted row is
\* the first raw row carrying its player name among the raw rows whose value
\* coerces to a number; and every such name is emitted.
C6_FirstValidOccurrenceKept ==
  Parsed =>
    /\ \A k, m \in 1..Len(ret.rows) :
          ret.rows[k].c["player_name"] = ret.rows[m].c["player_name"] => k = m
    /\ \A k \in 1..Len(ret.rows) :
          /\ RawName(ret.rows[k].idx) = ret.rows[k].c["player_name"]
          /\ RawValue(ret.rows[k].idx) = ret.rows[k].c[ParsedOutputCol]
          /\ RawValue(ret.rows[k].idx) # NaN
          /\ \A i \in 1..Len(ParsedRaw.rows) :
                (RawName(i) = ret.rows[k].c["player_name"] /\ RawValue(i) # NaN)
                   => ret.rows[k].idx <= i
    /\ \A i \in 1..Len(ParsedRaw.rows) :
          RawValue(i) # NaN =>
             \E k \in 1..Len(ret.rows) : ret.rows[k].c["player_name"] = RawName(i)

\* a name occurs three times; its first row has no numeric value, and the
\* second row is the one emitted
C6_Witness ==
  /\ Parsed
  /\ Len(ParsedRaw.rows) = 3
  /\ RawName(1) = tAnn /\ RawName(2) = tAnn /\ RawName(3) = tAnn
  /\ RawValue(1) = NaN /\ RawValue(2) # NaN /\ RawValue(3) # NaN
  /\ Len(ret.rows) = 1 /\ ret.rows[1].idx = 2

----------------------------------------------------------------------------
(* build_for_year: C1, C2, C3, C4                                          *)

Built == ret.op = "build_for_year" /\ ~ret.raised

StatSet == SeqToSet(Stats)

\* the tidy file of stat s for the year holds at least one row with a player
\* name, under the three columns the merge needs
UsableIn(dir, s, year) ==
  LET path == StatPath(s, year)
  IN /\ path \in DOMAIN dir
     /\ dir[path].ok
     /\ {"year", "player_name", STAT_COLUMNS[s]} \subseteq SeqToSet(dir[path].columns)
     /\ \E r \in 1..Len(dir[path].rows) :
           dir[path].rows[r]["player_name"] \notin NaStrings

Usable(s) == UsableIn(interDir, s, ret.year)

\* the rows with a player name in the tidy file of a usable stat
NamedRows(s) ==
  LET rows == interDir[StatPath(s, ret.year)].rows
  IN {rows[r] : r \in {q \in 1..Len(rows) : rows[q]["player_name"] \notin NaStrings}}

\* C1: build_for_year raises exactly when no configured stat has a usable tidy
\* file for the year; otherwise the usable stats, and only they, are loaded;
\* and when it raises, Skipped and Empty together name every configured stat.
C1_RaisesIffNoUsableStat ==
  ret.op = "build_for_year" =>
    /\ ret.raised <=> (\A s \in StatSet : ~Usable(s))
    /\ SeqToSet(ret.stats_loaded) = {s \in StatSet : Usable(s)}
    /\ ret.raised =>
         SeqToSet(ret.stats_skipped) \cup SeqToSet(ret.stats_empty) = StatSet

\* one stat's file is unreadable, another's has no usable row, the rest are
\* missing or loaded, and the call returned a frame
C1_Witness ==
  /\ Built
  /\ ret.stats_empty # <<>>
  /\ \E s \in SeqToSet(ret.stats_skipped) : StatPath(s, ret.year) \in DOMAIN interDir
  /\ \E s \in SeqToSet(ret.stats_skipped) : StatPath(s, ret.year) \notin DOMAIN interDir

\* the (year, player_name) pairs of the loaded tidy frames
LoadedKeys == UNION {{KeyOf(r) : r \in NamedRows(s)} : s \in {t \in StatSet : Usable(t)}}

\* the value the tidy frame of stat s holds for key k, NaN when it has none
TidyValue(s, k) ==
  IF Usable(s) /\ \E r \in NamedRows(s) : KeyOf(r) = k
    THEN (CHOOSE r \in NamedRows(s) : KeyOf(r) = k)[STAT_COLUMNS[s]]
    ELSE NULL

\* C2: the merged frame has exactly one row for each (year, player_name) pair
\* of the loaded tidy frames and no other row; each stat column holds the
\* player's value from that stat's tidy frame, and null when the player is
\* absent from it or the stat was not loaded.
C2_OneRowPerPlayerOuterJoin ==
  Built =>
    /\ {KeyOf(ret.df.rows[i]) : i \in 1..Len(ret.df.rows)} = LoadedKeys
    /\ Len(ret.df.rows) = Cardinality(LoadedKeys)
    /\ \A i \in 1..Len(ret.df.rows) : \A s \in StatSet :
          ret.df.rows[i][STAT_COLUMNS[s]] = TidyValue(s, KeyOf(ret.df.rows[i]))

\* two stats are loaded with different players, a third stat is missing, and
\* the merged frame holds both players
C2_Witness ==
  /\ Built
  /\ Len(ret.stats_loaded) = 2
  /\ Len(ret.df.rows) = 2
  /\ \E i \in 1..2 : \E s \in SeqToSet(ret.stats_loaded) :
        ret.df.rows[i][STAT_COLUMNS[s]] = NULL
  /\ \E s \in SeqToSet(ret.stats_skipped) : StatPath(s, ret.year) \in DOMAIN interDir

HasSchema(df) ==
  /\ df.columns = expected_cols
  /\ \A i \in 1..Len(df.rows) : DOMAIN df.rows[i] = SeqToSet(expected_cols)

\* C3: every frame build_for_year returns, and every per-year and all-years
\* file a merge run writes, has exactly the 14 expected columns in order; the
\* column of a stat that was not loaded is all null.
C3_FixedSchema ==
  /\ Len(expected_cols) = 14
  /\ Built =>
       /\ HasSchema(ret.df)
       /\ \A s \in StatSet \ SeqToSet(ret.stats_loaded) :
             \A i \in 1..Len(ret.df.rows) : ret.df.rows[i][STAT_COLUMNS[s]] = NULL
  /\ \A path \in DOMAIN procDir : HasSchema(procDir[path])

\* a frame was returned with a single stat loaded, after a merge run wrote the
\* all-years file
C3_Witness ==
  /\ Built
  /\ Len(ret.stats_loaded) = 1
  /\ Len(ret.df.rows) > 0
  /\ MasterPath \in DOMAIN procDir

Components == {<<"sg","ott">>, <<"sg","app">>, <<"sg","arg">>}

\* C4: in every returned row whose three components and sg_tee_to_green are
\* non-null, sg_tee_to_green is the components' sum; it is computed (non-null
\* for rows with three non-null components) only when all three component
\* stats were loaded, and is null in every row otherwise.
C4_TeeToGreenIsSum ==
  Built =>
    \A i \in 1..Len(ret.df.rows) :
       LET row == ret.df.rows[i]
           all3 == /\ row["sg_off_the_tee"] # NULL
                   /\ row["sg_approach"] # NULL
                   /\ row["sg_around_green"] # NULL
       IN /\ (all3 /\ row["sg_tee_to_green"] # NULL) =>
                row["sg_tee_to_green"][1] =
                  row["sg_off_the_tee"][1] + row["sg_approach"][1]
                    + row["sg_around_green"][1]
          /\ (all3 /\ Components \subseteq SeqToSet(ret.stats_loaded)) =>
                row["sg_tee_to_green"] # NULL
          /\ ~(Components \subseteq SeqToSet(ret.stats_loaded)) =>
                row["sg_tee_to_green"] = NULL

\* a row with three different non-null components and their sum
C4_Witness ==
  /\ Built
  /\ \E i \in 1..Len(ret.df.rows) :
        /\ ret.df.rows[i]["sg_off_the_tee"] = Num(1)
        /\ ret.df.rows[i]["sg_approach"] = Num(2)
        /\ ret.df.rows[i]["sg_around_green"] = Num(2)
        /\ ret.df.rows[i]["sg_tee_to_green"] = Num(5)

----------------------------------------------------------------------------
(* Merge run and normalize run: C9, C10                                    *)

Merged == ret.op = "build_main"

\* the discovered years of the run without any usable tidy file
DeadYears ==
  {y \in SeqToSet(ret.years) : \A s \in StatSet : ~UsableIn(interDir, s, y)}

\* the rows of the all-years file
MasterRows == IF MasterPath \in DOMAIN procDir THEN procDir[MasterPath].rows ELSE <<>>

\* C9 as stated: after a merge run, a discovered year without usable data is
\* just left out -- the per-year files of the other discovered years and the
\* all-years file were written by the run, without rows of that year; and a
\* run that finds no tidy file writes nothing and returns normally.
C9_DeadYearLeftOut ==
  Merged =>
    /\ \A y \in DeadYears :
          /\ ~ret.aborted
          /\ YearPath(y) \notin SeqToSet(ret.written)
          /\ MasterPath \in SeqToSet(ret.written)
          /\ \A z \in SeqToSet(ret.years) \ DeadYears :
                YearPath(z) \in SeqToSet(ret.written)
          /\ \A i \in 1..Len(MasterRows) : MasterRows[i]["year"] # y
    /\ DOMAIN interDir = {} => (~ret.aborted /\ ret.written = <<>>)

\* C9 amended: a merge run stops at the first discovered year (ascending)
\* without usable data: the per-year files of the earlier years were written,
\* the file of that year, those of later years and the all-years file were
\* not.  When every discovered year has usable data, all per-year files and
\* then the all-years file are written.  A run that discovers no year writes
\* nothing and returns normally.
C9_DeadYearAbortsRun ==
  Merged =>
    /\ ret.years = SortedInts(DiscoverYears(interDir))
    /\ ret.aborted <=> DeadYears # {}
    /\ ret.aborted =>
         /\ ret.failed_year \in DeadYears
         /\ \A y \in DeadYears : ret.failed_year <= y
         /\ SeqToSet(ret.written) =
              {YearPath(y) : y \in {z \in SeqToSet(ret.years) : z < ret.failed_year}}
    /\ (~ret.aborted /\ ret.years # <<>>) =>
         /\ ret.written = [i \in 1..Len(ret.years) |-> YearPath(ret.years[i])]
                            \o <<MasterPath>>
         /\ \A y \in SeqToSet(ret.years) :
               \E i \in 1..Len(MasterRows) : MasterRows[i]["year"] = y
    /\ ret.years = <<>> => (~ret.aborted /\ ret.written = <<>>)
    /\ \A path \in SeqToSet(ret.written) : path \in DOMAIN procDir

\* the run wrote the file of the earlier year and stopped at the later year,
\* whose only tidy file has no rows
C9_Witness ==
  /\ Merged
  /\ ret.aborted
  /\ Len(ret.years) = 2
  /\ ret.failed_year = ret.years[2]
  /\ ret.written = <<YearPath(ret.years[1])>>

Normalized == ret.op = "parse_main"

\* C10 as stated: after a normalize run every tidy file present was written
\* during the run from the current raw file of the same name.
C10_FullyRegenerated ==
  Normalized =>
    \A stem \in DOMAIN interDir :
       /\ stem \in DOMAIN rawDir
       /\ stem \in ret.written
       /\ parse_one_file(stem, rawDir[stem]).ok
       /\ interDir[stem] = ToCsv(parse_one_file(stem, rawDir[stem]))

\* the raw files a run parses without an exception
ParsedOk(raw) == {stem \in DOMAIN raw : parse_one_file(stem, raw[stem]).ok}

\* C10 amended: a normalize run (over)writes the tidy file of every raw file
\* it parses without error, from that raw file, and leaves every other tidy
\* file as it was -- the tidy file of a raw file that is gone, or whose parse
\* failed in this run, survives with its earlier content.
C10_OnlyParsedFilesRewritten ==
  [][ret'.op = "parse_main" =>
       /\ ret'.written = ParsedOk(rawDir)
       /\ ret'.skipped = DOMAIN rawDir \ ParsedOk(rawDir)
       /\ DOMAIN interDir' = DOMAIN interDir \cup ParsedOk(rawDir)
       /\ \A stem \in DOMAIN interDir' :
             interDir'[stem] =
               IF stem \in ParsedOk(rawDir)
                 THEN ToCsv(parse_one_file(stem, rawDir[stem]))
                 ELSE interDir[stem]]_vars

\* after a normalize run that wrote one tidy file, the tidy file of a raw
\* file whose parse failed in the run is still there
C10_Witness ==
  /\ Normalized
  /\ ret.written # {}
  /\ \E stem \in DOMAIN interDir : stem \in ret.skipped

----------------------------------------------------------------------------
(* Normalize run, per-file errors: C11                                     *)

\* the four ways the parse of a raw file raises: the filename is not
\* <stat>_<year>, the stat is not registered, the CSV cannot be read, or no
\* column qualifies as the value column
BadFilename(stem) == Len(stem) < 2 \/ ~IsIntStr(stem[Len(stem)])

UnregisteredStat(stem) == SubSeq(stem, 1, Len(stem) - 1) \notin DOMAIN STAT_SPEC

NoValueColumn(stem, file) ==
  ~find_value_column(ReadRawCsv(SubSeq(stem, 1, Len(stem) - 1), file),
                     SubSeq(stem, 1, Len(stem) - 1)).ok

ParseRaises(stem, file) ==
  \/ BadFilename(stem)
  \/ UnregisteredStat(stem)
  \/ ~file.ok
  \/ NoValueColumn(stem, file)

\* C11: in a normalize run, every raw file whose parse raises is skipped and
\* no tidy file is written for it (its tidy file is absent or unchanged after
\* the run), every other raw file of the batch has its tidy file written
\* from its parse, and the run handles every file of the batch (completes).
C11_BadFileSkippedOthersWritten ==
  [][ret'.op = "parse_main" =>
       /\ ret'.written \cup ret'.skipped = DOMAIN rawDir
       /\ \A stem \in DOMAIN rawDir :
             IF ParseRaises(stem, rawDir[stem])
               THEN /\ stem \in ret'.skipped
                    /\ stem \notin ret'.written
                    /\ (stem \in DOMAIN interDir') = (stem \in DOMAIN interDir)
                    /\ stem \in DOMAIN interDir => interDir'[stem] = interDir[stem]
               ELSE /\ stem \in ret'.written
                    /\ stem \notin ret'.skipped
                    /\ stem \in DOMAIN interDir'
                    /\ interDir'[stem] = ToCsv(parse_one_file(stem, rawDir[stem]))]_vars

\* a run over a batch holding a file of each failing kind and one good file:
\* the five bad ones were skipped, the good one's tidy file written with a row
C11_Witness ==
  /\ ret.op = "parse_main"
  /\ DOMAIN rawDir = BatchStems
  /\ rawDir[<<"sg","ott","2024">>] = RawNoValue
  /\ rawDir[<<"fedex","rank","2023">>] = RawUnreadable
  /\ rawDir[<<"sg","app","2024">>] = RawGood
  /\ ret.skipped = BatchStems \ {<<"sg","app","2024">>}
  /\ ret.written = {<<"sg","app","2024">>}
  /\ DOMAIN interDir = {<<"sg","app","2024">>}
  /\ Len(interDir[<<"sg","app","2024">>].rows) = 1

----------------------------------------------------------------------------
(* Fetch run: C12                                                          *)

\* the (year, stat) pairs of the full cross product, years in list order and
\* stats in mapping order within each year
FetchPairs ==
  [k \in 1..(Len(YEARS) * Len(STAT_IDS)) |->
     <<YEARS[((k - 1) \div Len(STAT_IDS)) + 1],
       STAT_IDS[((k - 1) % Len(STAT_IDS)) + 1]>>]

\* the request got a response with a non-success status; success is taken as
\* the HTTP library takes it (Response.ok: a final status below 400)
NonSuccess(resp) == resp.kind = "response" /\ resp.status >= 400

\* the request got no usable response: non-success status, or no response
Failed(resp) == NonSuccess(resp) \/ resp.kind = "exception"

\* the raw file of a pair
PairPath(pair) == StatPath(pair[2], pair[1])

====
